---- MODULE Spec2Model ----
(***************************************************************************)
(* A model of telminal's process-session engine (src/telminal/core.py):    *)
(* TProcess (buffer, lifecycle, keystroke injection, change detection),    *)
(* the Telminal registry and its cleaner, the per-process update loop      *)
(* (_run_in_background / response) and the interactive-process router.     *)
(*                                                                         *)
(* The program runs on one asyncio thread: a step of the model is the code *)
(* a coroutine runs between two suspension points (await).                 *)
(***************************************************************************)
EXTENDS Integers, Sequences, FiniteSets, TLC

\* ---------------------------------------------------------------- bounds
\* TProcess objects constructed in one run
MaxProc == 2
\* process ids the host hands out
MaxPid == 2
\* characters a process may write to its pty
MaxBuf == 2
\* handler coroutines (button callback / message) suspended at one time
MaxHandlers == 1
\* times the wall clock is observed to advance
MaxClockSteps == 3
\* clock ticks per second (time() is a float: the model keeps sub-second time)
HZ == 2
\* characters of a routed text message
MaxMsgLen == 3

\* ------------------------------------------------------ program constants
PROCESS_CLEANER_DELAY == 100
PROCESS_OUTPUT_LIFE_TIME == 60
\* _run_in_background: a partial update when (run_time + 1) % 4 == 0
PartialUpdatePeriod == 4

Objs == 1..MaxProc
Pids == 1..MaxPid
FrameIds == 1..(MaxProc + MaxHandlers)
HandlerIds == (MaxProc + 1)..(MaxProc + MaxHandlers)

\* characters a process prints, and characters an operator types
OutChar == {"a", "\n"}
Chunks == {<<c>> : c \in OutChar}
MsgChar == {"^", "c", "1", "\n"}

\* the amounts by which the wall clock is seen to advance between two steps:
\* half a tick, a second, and just under the output life time
TimeJumps == {1, HZ, (PROCESS_OUTPUT_LIFE_TIME - 1) * HZ}

\* ------------------------------------------------------- Python values
\* None, True and False next to str values (sequences of characters)
None == <<"None">>
PyTrue == <<"True">>
PyFalse == <<"False">>
PyBool(b) == IF b THEN PyTrue ELSE PyFalse
\* bool(v): None, False and the empty string are falsy
Truthy(v) == v \notin {None, PyFalse, <<>>}
\* a or b, a and b: the operand that decides is the value
PyOr(a, b) == IF Truthy(a) THEN a ELSE b
PyAnd(a, b) == IF Truthy(a) THEN b ELSE a
\* an attribute that was never assigned (reading it raises AttributeError)
Unset == -1
\* int(x) of a non-negative number of ticks, in seconds
IntSeconds(ticks) == ticks \div HZ

RECURSIVE SplitFrom(_, _, _)
\* str.split("\n"), scanning from index i with the current piece cur
SplitFrom(s, i, cur) ==
    IF i > Len(s) THEN <<cur>>
    ELSE IF s[i] = "\n" THEN <<cur>> \o SplitFrom(s, i + 1, <<>>)
    ELSE SplitFrom(s, i + 1, Append(cur, s[i]))
Split(s) == SplitFrom(s, 1, <<>>)
\* any(output.split("\n"))
AnyLine(s) == \E i \in 1..Len(Split(s)) : Split(s)[i] # <<>>

\* all texts over an alphabet up to a length
Texts(alphabet, n) == UNION {[1..k -> alphabet] : k \in 0..n}

VARIABLES
    proc,                 \* TProcess objects: object id -> fields
    all_processes,        \* Telminal.all_processes: pid -> object id (0: no entry)
    interactive_process,  \* Telminal.interactive_process (0: None)
    last_process,         \* Telminal._last_process (0: None)
    render_on,            \* a browser is set up and _render is True
    frame,                \* coroutine frames: the update loop of each process, and handlers
    keys,                 \* what the last push() call asked of the pty
    now,                  \* time(), in ticks
    clock_steps,          \* how often the clock was seen to advance
    cleaner_wake,         \* when process_cleaner's sleep ends
    not_exist_alerts,     \* pids whose callback was answered "this process not exist anymore"
    update_check          \* next_update_arrived of the last routed text ("raised": no value)

vars == <<proc, all_processes, interactive_process, last_process, render_on,
          frame, keys, now, clock_steps, cleaner_wake, not_exist_alerts, update_check>>

\* ---------------------------------------------------------------- TProcess
\* TProcess.__init__ (pid 0: not constructed yet)
NoProcess ==
    [pid |-> 0, pid_held |-> FALSE, is_running |-> FALSE, stream |-> "none",
     buffer |-> <<>>, pos |-> 0, received |-> <<>>,
     start_time |-> Unset, done_time |-> Unset, run_time |-> 0,
     new_data |-> "None", response_id |-> 0, is_partial |-> FALSE,
     last_message |-> <<>>, last_update_time |-> Unset,
     buttons |-> <<>>, is_interactive_process |-> FALSE,
     pushed_cand |-> <<>>, pushed_buttons |-> <<>>, became_done |-> Unset]

Constructed(o) == proc[o].pid # 0
Done(o) == Constructed(o) /\ ~proc[o].is_running

\* TProcess.run: spawn, pid, is_running, start_time, and the stream task
run(p, k, t) ==
    [p EXCEPT !.pid = k, !.pid_held = TRUE, !.is_running = TRUE,
              !.start_time = t, !.stream = "running"]

\* TProcess.done (became_done keeps the time of the call that ended the session)
done(p, t) ==
    [p EXCEPT !.is_running = FALSE, !.done_time = t,
              !.became_done = IF p.is_running THEN t ELSE @]

\* TProcess.terminate: pexpect's terminate() (it may or may not manage to
\* kill and reap the child), then done()
terminate(p, t, killed) ==
    done([p EXCEPT !.pid_held = IF killed THEN FALSE ELSE @], t)

\* StringIO.write at the cursor: overwrites what follows the cursor, extends at the end
BufferWrite(content, pos, s) ==
    SubSeq(content, 1, pos) \o s \o SubSeq(content, pos + Len(s) + 1, Len(content))

\* a read that leaves the cursor where seek(0) put it
ReadStaysRewound(content) == 0

\* where StringIO.read() leaves the cursor
ReadEnd(content) == Len(content)

\* TProcess.full_output: seek(0), read()
full_output(p) == SubSeq(p.buffer, 1, Len(p.buffer))
AfterFullOutput(p) == [p EXCEPT !.pos = ReadEnd(p.buffer)]

\* Telegram.media_strip: the spec gives no transformation of short texts
media_strip(text) == text

\* TProcess.media_output
media_output(p) == media_strip(full_output(p))

\* the finally clause of one TProcess.stream iteration
StreamFinally(p, t) == [p EXCEPT !.run_time = IntSeconds(t - p.start_time)]

\* one iteration of TProcess.stream: read_nonblocking gives data, EOF or TIMEOUT
StreamData(p, chunk, t) ==
    StreamFinally([p EXCEPT !.buffer = BufferWrite(p.buffer, p.pos, chunk),
                            !.pos = p.pos + Len(chunk),
                            !.received = @ \o chunk,
                            !.new_data = "True"], t)
StreamEOF(p, t, reaped) ==
    StreamFinally([done(p, t) EXCEPT !.stream = "ended",
                                     !.pid_held = IF reaped THEN FALSE ELSE @], t)
StreamTimeout(p, t) == StreamFinally(p, t)

\* ------------------------------------------------------------------ Init
IdleFrame ==
    [pc |-> "idle", proc |-> 0, final |-> FALSE, new_buttons |-> FALSE,
     media_output |-> <<>>, page |-> <<>>, output |-> <<>>, cand |-> <<>>,
     edit |-> FALSE, buttons |-> <<>>]

NoKeys == [to |-> 0, text |-> <<>>, sent |-> <<>>, running |-> FALSE]

InitWith(render) ==
    /\ proc = [o \in Objs |-> NoProcess]
    /\ all_processes = [k \in Pids |-> 0]
    /\ interactive_process = 0
    /\ last_process = 0
    /\ render_on = render
    /\ frame = [f \in FrameIds |-> IdleFrame]
    /\ keys = NoKeys
    /\ now = 0
    /\ clock_steps = 0
    /\ cleaner_wake = 0
    /\ not_exist_alerts = {}
    /\ update_check = "none"

\* ------------------------------------------------- buttons, change gate
\* the button rows update_buttons builds (their labels)
ButtonSet(p) ==
    IF p.is_running
    THEN <<"Info", "Enter",
           IF p.is_interactive_process THEN "Exit interactive mode"
                                       ELSE "Interactive mode",
           "Terminate", "HTML">>
    ELSE <<"Info", "HTML">>

\* update_buttons that returns its answer without storing the new rows
update_buttons_forgets(p) == p

\* TProcess.update_buttons: its return value, and the object afterwards
update_buttons_changed(p) == p.buttons # ButtonSet(p)
update_buttons(p) == [p EXCEPT !.buttons = ButtonSet(p)]

\* has_new_state comparing with == in place of !=
has_new_state_same(p, new_buttons, new_output) ==
    PyOr(PyBool(new_buttons),
         PyAnd(new_output, PyBool(p.last_message = new_output)))

\* TProcess.has_new_state (the Python value the expression yields)
has_new_state(p, new_buttons, new_output) ==
    PyOr(PyBool(new_buttons),
         PyAnd(new_output, PyBool(p.last_message # new_output)))

\* the last_message setter
set_last_message(p, v, t) ==
    [p EXCEPT !.last_message = v, !.new_data = "False", !.last_update_time = t]

\* ------------------------------------------------------------------- push
sendcontrol(ch) == <<"sendcontrol", <<ch>>>>
send(word) == <<"send", word>>
Enter == sendcontrol("m")

\* the body of the for loop of TProcess.push, for the piece at index i (0-based)
PushWord(i, word) ==
    (IF i # 0 THEN <<Enter>> ELSE <<>>)
    \o (IF word = <<>> THEN <<Enter>> ELSE <<send(word)>>)

RECURSIVE PushWords(_, _)
PushWords(words, i) ==
    IF i >= Len(words) THEN <<>>
    ELSE PushWord(i, words[i + 1]) \o PushWords(words, i + 1)

\* TProcess.push: the calls it makes on the pty, in order
push(command) ==
    IF Len(command) = 2 /\ command[1] = "^"
    THEN <<sendcontrol(command[2])>>
    ELSE PushWords(Split(command), 0)

\* --------------------------------------------------------------- router
\* set_interactive_process without lines 575-576: the old flag stays
set_interactive_keeps_old(P, ip, o) ==
    [q \in Objs |->
        IF q = o THEN [P[q] EXCEPT !.is_interactive_process = TRUE] ELSE P[q]]

\* Telminal.set_interactive_process / reset_interactive_process on the objects
set_interactive_process(P, ip, o) ==
    [q \in Objs |->
        IF q = o THEN [P[q] EXCEPT !.is_interactive_process = TRUE]
        ELSE IF q = ip THEN [P[q] EXCEPT !.is_interactive_process = FALSE]
        ELSE P[q]]
reset_interactive_process(P, ip) ==
    [q \in Objs |->
        IF q = ip THEN [P[q] EXCEPT !.is_interactive_process = FALSE] ELSE P[q]]

\* --------------------------------------------------------------- response
\* the text xterm.js gives back for the page built from the buffer
term_getSelection(data) == data

\* an update loop that goes round again after its last response
ReturnedFrameLoops(f, fr) ==
    IF f \in Objs
    THEN [IdleFrame EXCEPT !.proc = f, !.pc = "check", !.final = fr.final]
    ELSE IdleFrame

\* where a frame is once response() has returned or raised: the update loop
\* sleeps and checks again, or has ended after its last response; a handler ends
ReturnedFrame(f, fr) ==
    IF f \in Objs
    THEN [IdleFrame EXCEPT !.proc = f,
                           !.pc = IF fr.final THEN "stopped" ELSE "check",
                           !.final = fr.final]
    ELSE IdleFrame

\* _run_in_background without its finally clause
ReturnedNoReset(f, fr, P) ==
    /\ frame' = [frame EXCEPT ![f] = ReturnedFrame(f, fr)]
    /\ proc' = P
    /\ UNCHANGED interactive_process

\* response() is over for frame f, the objects being P: the finally clause of
\* _run_in_background follows when this was the loop's last response
Returned(f, fr, P) ==
    /\ frame' = [frame EXCEPT ![f] = ReturnedFrame(f, fr)]
    /\ IF f \in Objs /\ fr.final /\ interactive_process = f
       THEN /\ proc' = reset_interactive_process(P, interactive_process)
            /\ interactive_process' = 0
       ELSE /\ proc' = P
            /\ UNCHANGED interactive_process

\* the request response() hands to the transport, kept while it is awaited
TransportFrame(fr, p, output) ==
    [fr EXCEPT !.pc = "transport", !.edit = p.is_partial, !.cand = output,
               !.buttons = p.buttons,
               !.output = IF p.is_partial /\ ~AnyLine(output) THEN None ELSE output]

\* response() from its second has_new_state check on
AfterRender(f, fr, P, output) ==
    IF ~Truthy(has_new_state(P[fr.proc], fr.new_buttons, output))
    THEN Returned(f, fr, P)
    ELSE /\ frame' = [frame EXCEPT ![f] = TransportFrame(fr, P[fr.proc], output)]
         /\ proc' = P
         /\ UNCHANGED interactive_process

\* response() up to its first suspension, called from frame f
Begin(f, fr0) ==
    LET o == fr0.proc
        p == proc[o]
        mo == media_output(p)
        nb == update_buttons_changed(p)
        P1 == [proc EXCEPT ![o] = update_buttons(AfterFullOutput(p))]
        fr1 == [fr0 EXCEPT !.new_buttons = nb, !.media_output = mo]
    IN  IF ~Truthy(has_new_state(P1[o], nb, mo))
        THEN Returned(f, fr1, P1)
        ELSE IF render_on
        THEN /\ frame' = [frame EXCEPT ![f] = [fr1 EXCEPT !.pc = "render"]]
             /\ proc' = P1
             /\ UNCHANGED interactive_process
        ELSE AfterRender(f, fr1, P1, media_output(P1[o]))

\* render_xtermjs: the page is open, process.html writes the buffer to the file
RenderPage(f) ==
    /\ frame[f].pc = "render"
    /\ LET o == frame[f].proc
       IN /\ frame' = [frame EXCEPT ![f].pc = "shot",
                                    ![f].page = term_getSelection(full_output(proc[o]))]
          /\ proc' = [proc EXCEPT ![o] = AfterFullOutput(@)]
    /\ UNCHANGED <<all_processes, interactive_process, last_process, render_on,
                   keys, now, clock_steps, cleaner_wake, not_exist_alerts, update_check>>

\* render_xtermjs: screenshot taken, the selection read and stripped
RenderShot(f) ==
    /\ frame[f].pc = "shot"
    /\ AfterRender(f, frame[f], proc, media_strip(frame[f].page))
    /\ UNCHANGED <<all_processes, last_process, render_on, keys, now, clock_steps, cleaner_wake, not_exist_alerts, update_check>>

\* render_xtermjs: the browser raised, the plain output is used
RenderFail(f) ==
    /\ frame[f].pc \in {"render", "shot"}
    /\ AfterRender(f, frame[f], proc, frame[f].media_output)
    /\ UNCHANGED <<all_processes, last_process, render_on, keys, now, clock_steps, cleaner_wake, not_exist_alerts, update_check>>

\* the transport call of response() returned
TransportOk(f) ==
    /\ frame[f].pc = "transport"
    /\ LET fr == frame[f]
           o == fr.proc
           p0 == [proc[o] EXCEPT !.pushed_cand = fr.cand,
                                 !.pushed_buttons = fr.buttons]
           p1 == IF fr.edit THEN p0
                 ELSE [p0 EXCEPT !.response_id = @ + 1, !.is_partial = TRUE]
       IN /\ Returned(f, fr, [proc EXCEPT ![o] = set_last_message(p1, fr.output, now)])
          /\ last_process' = IF fr.edit THEN last_process ELSE o
    /\ UNCHANGED <<all_processes, render_on, keys, now, clock_steps, cleaner_wake, not_exist_alerts, update_check>>

\* a raised transport call that ends the caller: no except clause in the loop
TransportFailEndsLoop(f) ==
    /\ frame[f].pc = "transport"
    /\ frame' = [frame EXCEPT ![f] =
           IF f \in Objs THEN [IdleFrame EXCEPT !.proc = f, !.pc = "stopped"]
           ELSE IdleFrame]
    /\ UNCHANGED <<proc, interactive_process>>
    /\ UNCHANGED <<all_processes, last_process, render_on, keys, now, clock_steps, cleaner_wake, not_exist_alerts, update_check>>

\* the transport call of response() raised
TransportFail(f) ==
    /\ frame[f].pc = "transport"
    /\ Returned(f, frame[f], proc)
    /\ UNCHANGED <<all_processes, last_process, render_on, keys, now, clock_steps, cleaner_wake, not_exist_alerts, update_check>>

\* ------------------------------------------------------ _run_in_background
\* the while test and the start of an iteration; when the process is done,
\* the last response() and the finally clause
SchedCheck(o) ==
    /\ frame[o].pc = "check"
    /\ IF proc[o].is_running
       THEN /\ frame' = [frame EXCEPT ![o].pc =
                   IF (proc[o].run_time + 1) % PartialUpdatePeriod = 0 \/ proc[o].response_id = 0
                   THEN "sleep" ELSE "check"]
            /\ UNCHANGED <<proc, interactive_process>>
       ELSE Begin(o, [frame[o] EXCEPT !.final = TRUE])
    /\ UNCHANGED <<all_processes, last_process, render_on, keys, now, clock_steps, cleaner_wake, not_exist_alerts, update_check>>

\* the response() of an iteration, after its delay
SchedRespond(o) ==
    /\ frame[o].pc = "sleep"
    /\ Begin(o, frame[o])
    /\ UNCHANGED <<all_processes, last_process, render_on, keys, now, clock_steps, cleaner_wake, not_exist_alerts, update_check>>

\* --------------------------------------------------------------- handlers
IdleHandlers == {h \in HandlerIds : frame[h].pc = "idle"}
FirstIdle == CHOOSE h \in IdleHandlers : \A g \in IdleHandlers : h <= g
Unconstructed == {o \in Objs : ~Constructed(o)}
FirstNew == CHOOSE o \in Unconstructed : \A q \in Unconstructed : o <= q
\* the pids the host may give a new child: one no living or unreaped child
\* holds, either used before or the next one never used
UsedPids == {proc[o].pid : o \in Objs} \ {0}
FreePids ==
    {k \in Pids : /\ \A o \in Objs : ~(proc[o].pid = k /\ proc[o].pid_held)
                  /\ \A j \in Pids : j < k => j \in UsedPids}

\* a lookup that still resolves the pid of a process the cleaner removed
find_process_stale(k) ==
    IF \E o \in Objs : proc[o].pid = k
    THEN CHOOSE o \in Objs : proc[o].pid = k
    ELSE 0

\* find_process_by_event: Telminal.all_processes.get(pid) (0: None)
find_process(k) == all_processes[k]

\* find_process_by_event, no such process: the alert, the button is cleared,
\* the wrapped handler is not called
NotFound(k) ==
    /\ find_process(k) = 0
    /\ not_exist_alerts' = not_exist_alerts \cup {k}
    /\ UNCHANGED <<proc, all_processes, interactive_process, last_process,
                   render_on, frame, keys, now, clock_steps, cleaner_wake, update_check>>

KeysOf(o, text) ==
    [to |-> o, text |-> text, sent |-> push(text), running |-> proc[o].is_running]

\* a new process that is started without an entry in all_processes
NewProcessUnregistered(k, n) ==
    /\ interactive_process = 0
    /\ Unconstructed # {}
    /\ Cardinality(Objs \ Unconstructed) < n
    /\ k \in FreePids
    /\ LET o == FirstNew
       IN /\ proc' = [proc EXCEPT ![o] = run(NoProcess, k, now)]
          /\ frame' = [frame EXCEPT ![o] = [IdleFrame EXCEPT !.pc = "check", !.proc = o]]
    /\ UNCHANGED <<all_processes, interactive_process, last_process, render_on, keys, now, clock_steps, cleaner_wake, not_exist_alerts, update_check>>

\* _all_messages_handler, no interactive process: a new process and its loop
\* (at most n processes are started)
NewProcess(k, n) ==
    /\ interactive_process = 0
    /\ Unconstructed # {}
    /\ Cardinality(Objs \ Unconstructed) < n
    /\ k \in FreePids
    /\ LET o == FirstNew
       IN /\ proc' = [proc EXCEPT ![o] = run(NoProcess, k, now)]
          /\ all_processes' = [all_processes EXCEPT ![k] = o]
          /\ frame' = [frame EXCEPT ![o] = [IdleFrame EXCEPT !.pc = "check", !.proc = o]]
    /\ UNCHANGED <<interactive_process, last_process, render_on, keys, now, clock_steps, cleaner_wake, not_exist_alerts, update_check>>

\* next_update_arrived of _all_messages_handler
next_update_arrived(p, t) == IntSeconds(t) * HZ - p.last_update_time >= 2 * HZ

\* _all_messages_handler, an interactive process: push, and maybe a response
AllMessagesInteractive(text) ==
    /\ interactive_process # 0
    /\ LET o == interactive_process
       IN /\ keys' = KeysOf(o, text)
          /\ IF proc[o].last_update_time = Unset
             THEN /\ update_check' = "raised"
                  /\ UNCHANGED <<proc, frame, interactive_process>>
             ELSE IF next_update_arrived(proc[o], now)
             THEN /\ update_check' = "True"
                  /\ IdleHandlers # {}
                  /\ Begin(FirstIdle, [IdleFrame EXCEPT !.proc = o])
             ELSE /\ update_check' = "False"
                  /\ UNCHANGED <<proc, frame, interactive_process>>
    /\ UNCHANGED <<all_processes, last_process, render_on, now, clock_steps, cleaner_wake, not_exist_alerts>>

\* _interactive_handler up to event.answer
Interact(k) ==
    /\ find_process(k) # 0
    /\ IdleHandlers # {}
    /\ LET o == find_process(k)
       IN /\ IF interactive_process = o
             THEN /\ proc' = reset_interactive_process(proc, interactive_process)
                  /\ interactive_process' = 0
             ELSE /\ proc' = set_interactive_process(proc, interactive_process, o)
                  /\ interactive_process' = o
          /\ frame' = [frame EXCEPT ![FirstIdle] = [IdleFrame EXCEPT !.pc = "answer", !.proc = o]]
    /\ UNCHANGED <<all_processes, last_process, render_on, keys, now, clock_steps, cleaner_wake, not_exist_alerts, update_check>>

\* _interactive_handler after event.answer: response(), or the answer raised
HandlerRespond(h, answered) ==
    /\ frame[h].pc = "answer"
    /\ IF answered
       THEN Begin(h, frame[h])
       ELSE /\ frame' = [frame EXCEPT ![h] = IdleFrame]
            /\ UNCHANGED <<proc, interactive_process>>
    /\ UNCHANGED <<all_processes, last_process, render_on, keys, now, clock_steps, cleaner_wake, not_exist_alerts, update_check>>

\* _terminate_handler
Terminate(k, killed) ==
    /\ find_process(k) # 0
    /\ proc' = [proc EXCEPT ![find_process(k)] = terminate(@, now, killed)]
    /\ UNCHANGED <<all_processes, interactive_process, last_process, render_on,
                   frame, keys, now, clock_steps, cleaner_wake, not_exist_alerts, update_check>>

\* _enter_handler
EnterKey(k) ==
    /\ find_process(k) # 0
    /\ keys' = KeysOf(find_process(k), <<"^", "m">>)
    /\ UNCHANGED <<proc, all_processes, interactive_process, last_process,
                   render_on, frame, now, clock_steps, cleaner_wake, not_exist_alerts, update_check>>

\* _html_handler: process.html reads the whole output
Html(k) ==
    /\ find_process(k) # 0
    /\ proc' = [proc EXCEPT ![find_process(k)] = AfterFullOutput(@)]
    /\ UNCHANGED <<all_processes, interactive_process, last_process, render_on,
                   frame, keys, now, clock_steps, cleaner_wake, not_exist_alerts, update_check>>

\* _run_bot_father_commands: /interacive_mode
InteractiveMode ==
    /\ last_process # 0
    /\ proc[last_process].is_running
    /\ proc' = set_interactive_process(proc, interactive_process, last_process)
    /\ interactive_process' = last_process
    /\ UNCHANGED <<all_processes, last_process, render_on, frame, keys, now, clock_steps, cleaner_wake, not_exist_alerts, update_check>>

\* _run_bot_father_commands: /normal_mode
NormalMode ==
    /\ proc' = reset_interactive_process(proc, interactive_process)
    /\ interactive_process' = 0
    /\ UNCHANGED <<all_processes, last_process, render_on, frame, keys, now, clock_steps, cleaner_wake, not_exist_alerts, update_check>>

\* _run_bot_father_commands: /image_on, /image_off
ImageSwitch ==
    /\ render_on' = ~render_on
    /\ UNCHANGED <<proc, all_processes, interactive_process, last_process,
                   frame, keys, now, clock_steps, cleaner_wake, not_exist_alerts, update_check>>

\* ------------------------------------------------------- process_cleaner
\* the cleaner's test with >= in place of >
ExpiredAtLifeTime(p, t) ==
    ~p.is_running /\ IntSeconds(t - p.done_time) >= PROCESS_OUTPUT_LIFE_TIME

\* the test of process_cleaner on one process at time t
Expired(p, t) ==
    ~p.is_running /\ IntSeconds(t - p.done_time) > PROCESS_OUTPUT_LIFE_TIME

\* one cycle of process_cleaner, and its sleep
Reap ==
    /\ now >= cleaner_wake
    /\ all_processes' = [k \in Pids |->
           IF all_processes[k] # 0 /\ Expired(proc[all_processes[k]], now)
           THEN 0 ELSE all_processes[k]]
    /\ cleaner_wake' = now + PROCESS_CLEANER_DELAY * HZ
    /\ UNCHANGED <<proc, interactive_process, last_process, render_on, frame,
                   keys, now, clock_steps, not_exist_alerts, update_check>>

\* the wall clock advances by d ticks (observed at most n times)
Tick(d, n) ==
    /\ clock_steps < n
    /\ now' = now + d
    /\ clock_steps' = clock_steps + 1
    /\ UNCHANGED <<proc, all_processes, interactive_process, last_process,
                   render_on, frame, keys, cleaner_wake, not_exist_alerts, update_check>>

\* TProcess.stream, one iteration
Stream(o, outcome) ==
    /\ proc[o].stream = "running"
    /\ outcome.kind = "data" => Len(proc[o].received) + Len(outcome.chunk) <= MaxBuf
    /\ proc' = [proc EXCEPT ![o] =
           CASE outcome.kind = "data" -> StreamData(@, outcome.chunk, now)
             [] outcome.kind = "eof" -> StreamEOF(@, now, outcome.reaped)
             [] OTHER -> StreamTimeout(@, now)]
    /\ UNCHANGED <<all_processes, interactive_process, last_process, render_on,
                   frame, keys, now, clock_steps, cleaner_wake, not_exist_alerts, update_check>>

\* what read_nonblocking can give
DataOutcomes == {[kind |-> "data", chunk |-> c, reaped |-> FALSE] : c \in Chunks}
EndOutcomes ==
    {[kind |-> "eof", chunk |-> <<>>, reaped |-> r] : r \in BOOLEAN}
    \cup {[kind |-> "timeout", chunk |-> <<>>, reaped |-> FALSE]}
StreamOutcomes == DataOutcomes \cup EndOutcomes

AllTexts == Texts(MsgChar, MaxMsgLen)

\* response() and the update loop
ResponseSteps ==
    \/ \E o \in Objs : SchedCheck(o)
    \/ \E o \in Objs : SchedRespond(o)
    \/ \E f \in FrameIds : TransportOk(f)
    \/ \E f \in FrameIds : TransportFail(f)

RenderSteps ==
    \/ \E f \in FrameIds : RenderPage(f)
    \/ \E f \in FrameIds : RenderShot(f)
    \/ \E f \in FrameIds : RenderFail(f)

\* ---------------------------------------------------------------- Router
\* Several processes and every way the interactive process is set and
\* cleared: the toggle button, /interacive_mode, /normal_mode, and the end of
\* an update loop after its process was terminated
Init == InitWith(FALSE)
Next ==
    \/ \E k \in Pids : NewProcess(k, MaxProc)
    \/ \E k \in Pids : Interact(k)
    \/ \E h \in HandlerIds : HandlerRespond(h, FALSE)
    \/ InteractiveMode
    \/ NormalMode
    \/ \E k \in Pids : Terminate(k, FALSE)
    \/ \E o \in Objs : SchedCheck(o)
    \/ \E o \in Objs : SchedRespond(o)
    \/ \E f \in FrameIds : TransportOk(f)
Spec == Init /\ [][Next]_vars

\* --------------------------------------------------------------- Session
\* One process from spawn to the end of its update loop: the drain loop, the
\* pushes with and without the browser, termination, the HTML button
NextSession ==
    \/ \E k \in Pids : NewProcess(k, 1)
    \/ \E o \in Objs, x \in StreamOutcomes : Stream(o, x)
    \/ \E k \in Pids, killed \in BOOLEAN : Terminate(k, killed)
    \/ \E k \in Pids : Html(k)
    \/ ImageSwitch
    \/ ResponseSteps
    \/ RenderSteps
SpecSession == Init /\ [][NextSession]_vars

\* ------------------------------------------------------------- Lifecycle
\* One process, the wall clock and the cleaner
NextLifecycle ==
    \/ \E k \in Pids : NewProcess(k, 1)
    \/ \E o \in Objs, x \in StreamOutcomes : Stream(o, x)
    \/ \E k \in Pids, killed \in BOOLEAN : Terminate(k, killed)
    \/ \E d \in TimeJumps : Tick(d, MaxClockSteps)
    \/ Reap
SpecLifecycle == Init /\ [][NextLifecycle]_vars

\* ------------------------------------------------------------------ Push
\* One process that is made interactive and is sent texts and Enter presses
NextPush ==
    \/ \E k \in Pids : NewProcess(k, 1)
    \/ \E k \in Pids : Interact(k)
    \/ \E h \in HandlerIds : HandlerRespond(h, FALSE)
    \/ \E t \in AllTexts : AllMessagesInteractive(t)
    \/ \E k \in Pids : EnterKey(k)
    \/ \E k \in Pids, killed \in BOOLEAN : Terminate(k, killed)
SpecPush == Init /\ [][NextPush]_vars

\* ---------------------------------------------------------------- Toggle
\* One process whose update loop runs next to the responses the toggle
\* button starts
NextToggle ==
    \/ \E k \in Pids : NewProcess(k, 1)
    \/ \E o \in Objs, x \in StreamOutcomes : Stream(o, x)
    \/ \E k \in Pids : Terminate(k, TRUE)
    \/ \E k \in Pids : Interact(k)
    \/ \E h \in HandlerIds, a \in BOOLEAN : HandlerRespond(h, a)
    \/ ResponseSteps
SpecToggle == Init /\ [][NextToggle]_vars

\* -------------------------------------------------------------- Callbacks
\* the button callbacks, each wrapped by find_process_by_event
Callback(k) ==
    \/ Interact(k)
    \/ EnterKey(k)
    \/ Html(k)
    \/ \E killed \in BOOLEAN : Terminate(k, killed)
    \/ NotFound(k)

\* One process that ends, is removed by the cleaner once the output life
\* time has passed, and whose buttons are still pressed
NextCallbacks ==
    \/ \E k \in Pids : NewProcess(k, 1)
    \/ \E o \in Objs, x \in EndOutcomes : Stream(o, x)
    \/ Tick((PROCESS_OUTPUT_LIFE_TIME + 1) * HZ, 1)
    \/ Reap
    \/ \E h \in HandlerIds : HandlerRespond(h, FALSE)
    \/ \E k \in Pids : Callback(k)
SpecCallbacks == Init /\ [][NextCallbacks]_vars

\* ------------------------------------------------------------------ Loop
\* One process and its update loop, with pushes that fail, under the
\* scheduling asyncio gives: a sleep ends, an awaited transport call returns
\* or raises, the drain loop keeps being resumed
NextLoop ==
    \/ \E k \in Pids : NewProcess(k, 1)
    \/ \E o \in Objs, x \in StreamOutcomes : Stream(o, x)
    \/ \E k \in Pids, killed \in BOOLEAN : Terminate(k, killed)
    \/ Tick((PartialUpdatePeriod - 1) * HZ, 1)
    \/ ResponseSteps
LoopFairness ==
    /\ \A o \in Objs : WF_vars(SchedCheck(o))
    /\ \A o \in Objs : WF_vars(SchedRespond(o))
    /\ \A f \in FrameIds : WF_vars(TransportOk(f) \/ TransportFail(f))
SpecLoop == Init /\ [][NextLoop]_vars /\ LoopFairness

\* -------------------------------------------------------------- Shutdown
\* One process that is made interactive and ends or is terminated, with
\* pushes that fail
NextShutdown ==
    \/ \E k \in Pids : NewProcess(k, 1)
    \/ \E o \in Objs, x \in EndOutcomes : Stream(o, x)
    \/ \E k \in Pids : Terminate(k, TRUE)
    \/ \E k \in Pids : Interact(k)
    \/ \E h \in HandlerIds : HandlerRespond(h, FALSE)
    \/ ResponseSteps
SpecShutdown == Init /\ [][NextShutdown]_vars /\ LoopFairness

\* -------------------------------------------------------------- Failures
\* One process and its update loop with the browser switched on and off,
\* renders that raise and pushes that fail
NextFailures ==
    \/ \E k \in Pids : NewProcess(k, 1)
    \/ \E o \in Objs, x \in StreamOutcomes : Stream(o, x)
    \/ \E k \in Pids : Terminate(k, TRUE)
    \/ ImageSwitch
    \/ ResponseSteps
    \/ RenderSteps
RenderFairness ==
    /\ \A f \in FrameIds : WF_vars(RenderPage(f) \/ RenderFail(f))
    /\ \A f \in FrameIds : WF_vars(RenderShot(f) \/ RenderFail(f))
SpecFailures == Init /\ [][NextFailures]_vars /\ LoopFairness /\ RenderFairness

\* ------------------------------------------------------------------ Race
\* One process, with a browser: the responses of its update loop and of the
\* toggle button, each suspended while the page is rendered and while the
\* transport is awaited, next to the drain loop
InitRender == InitWith(TRUE)
NextRace ==
    \/ \E k \in Pids : NewProcess(k, 1)
    \/ \E o \in Objs, x \in StreamOutcomes : Stream(o, x)
    \/ \E k \in Pids : Interact(k)
    \/ \E h \in HandlerIds : HandlerRespond(h, TRUE)
    \/ \E o \in Objs : SchedCheck(o)
    \/ \E o \in Objs : SchedRespond(o)
    \/ \E f \in FrameIds : RenderPage(f)
    \/ \E f \in FrameIds : RenderShot(f)
    \/ \E f \in FrameIds : TransportOk(f)
SpecRace == InitRender /\ [][NextRace]_vars

\* ----------------------------------------------------------------- Route
\* Text messages that are commands when no process is interactive and input
\* when one is, for two running processes whose update loops push
OrdinaryTexts == {<<"c", "\n", "c">>, <<"^", "c">>}
NextRoute ==
    \/ \E k \in Pids : NewProcess(k, 2)
    \/ \E t \in OrdinaryTexts : AllMessagesInteractive(t)
    \/ \E k \in Pids : Interact(k)
    \/ \E h \in HandlerIds : HandlerRespond(h, FALSE)
    \/ \E o \in Objs : SchedCheck(o)
    \/ \E o \in Objs : SchedRespond(o)
    \/ \E f \in FrameIds : TransportOk(f)
    \/ Tick(2 * HZ, 1)
SpecRoute == Init /\ [][NextRoute]_vars

\* ----------------------------------------------------------------- Reuse
\* Two processes one after the other, the first ended and still in
\* all_processes when the second is started, and the button callbacks
NextReuse ==
    \/ \E k \in Pids : NewProcess(k, 2)
    \/ \E o \in Objs, x \in EndOutcomes : Stream(o, x)
    \/ \E h \in HandlerIds : HandlerRespond(h, FALSE)
    \/ \E k \in Pids : Callback(k)
SpecReuse == Init /\ [][NextReuse]_vars

\* ================================================================ claims

\* C1: in every reachable state a TProcess has is_interactive_process = True
\* exactly when it is the router's interactive_process, so at most one has it
C1_InteractiveExclusive ==
    /\ \A o \in Objs : proc[o].is_interactive_process <=> (interactive_process = o)
    /\ Cardinality({o \in Objs : proc[o].is_interactive_process}) <= 1

\* C1 witness: process 2 is interactive after process 1 was (the buttons last
\* built for process 1 still offer to leave interactive mode)
C1_Witness ==
    /\ interactive_process = 2
    /\ proc[2].is_interactive_process
    /\ Constructed(1)
    /\ ~proc[1].is_interactive_process
    /\ proc[1].buttons = <<"Info", "Enter", "Exit interactive mode", "Terminate", "HTML">>

\* C2: every full_output read returns exactly the chunks the drain loop
\* appended so far, in the order received, whatever reads came in between
C2_FullOutputIsHistory ==
    \A o \in Objs : full_output(proc[o]) = proc[o].received

\* C2 witness: a response holds what it read earlier, and the buffer has
\* since been appended to
C2_Witness ==
    \E f \in FrameIds :
        /\ frame[f].pc \in {"render", "shot", "transport"}
        /\ Len(frame[f].media_output) >= 1
        /\ Len(proc[frame[f].proc].buffer) > Len(frame[f].media_output)
        /\ proc[frame[f].proc].buffer = proc[frame[f].proc].received

\* C3 (as claimed): terminate() on a session that is already Done is a
\* no-op, the done_time recorded first is not changed by the second call
C3_TerminateIdempotent ==
    [][\A k \in Pids, killed \in BOOLEAN :
          (all_processes[k] # 0 /\ Done(all_processes[k]) /\ Terminate(k, killed))
          => proc'[all_processes[k]].done_time = proc[all_processes[k]].done_time]_vars

\* C4 (as claimed): once is_running is False no iteration of the drain loop
\* appends to the buffer, sets the new-data flag or records done_time again
C4_DrainAfterDoneIsNoOp ==
    [][\A o \in Objs, x \in StreamOutcomes :
          (Done(o) /\ Stream(o, x))
          => /\ proc'[o].buffer = proc[o].buffer
             /\ proc'[o].new_data = proc[o].new_data
             /\ proc'[o].done_time = proc[o].done_time]_vars

\* a cycle of process_cleaner has just run: its sleep began at this instant
JustReaped == cleaner_wake = now + PROCESS_CLEANER_DELAY * HZ

\* C5 (as claimed): a reap cycle removes exactly the sessions that are Done
\* and whose time since done_time exceeds the 60 seconds: none of those is
\* left after the cycle, and nothing else is removed
C5_ReapsWhenLifeTimeExceeded ==
    /\ [](JustReaped => \A k \in Pids : all_processes[k] # 0 =>
            ~(/\ Done(all_processes[k])
              /\ now - proc[all_processes[k]].done_time > PROCESS_OUTPUT_LIFE_TIME * HZ))
    /\ [][\A k \in Pids : (all_processes[k] # 0 /\ all_processes'[k] = 0) =>
            /\ Done(all_processes[k])
            /\ now - proc[all_processes[k]].done_time > PROCESS_OUTPUT_LIFE_TIME * HZ]_vars

\* C5 (amended): a reap cycle removes exactly the sessions that are Done and
\* for which at least 61 seconds have passed since done_time (the whole
\* seconds elapsed exceed 60): none of those is left after the cycle, nothing
\* else is removed, and a Running session never is
C5_ReapsAfterWholeSeconds ==
    /\ [](JustReaped => \A k \in Pids : all_processes[k] # 0 =>
            ~(/\ Done(all_processes[k])
              /\ now - proc[all_processes[k]].done_time
                     >= (PROCESS_OUTPUT_LIFE_TIME + 1) * HZ))
    /\ [][\A k \in Pids : (all_processes[k] # 0 /\ all_processes'[k] = 0) =>
            /\ Done(all_processes[k])
            /\ now - proc[all_processes[k]].done_time
                   >= (PROCESS_OUTPUT_LIFE_TIME + 1) * HZ]_vars

\* C5 witness: a cycle has just removed a session Done for 61 seconds
C5_Witness ==
    \E o \in Objs :
        /\ JustReaped
        /\ Done(o)
        /\ all_processes[proc[o].pid] = 0
        /\ now - proc[o].done_time = (PROCESS_OUTPUT_LIFE_TIME + 1) * HZ

\* C6: has_new_state(buttonsChanged, candidateOutput) is true exactly when
\* buttonsChanged is true, or candidateOutput is non-empty and differs from
\* last_message (it reads the session and assigns nothing)
C6_HasNewState ==
    \A o \in Objs, nb \in BOOLEAN, out \in Texts(OutChar, MaxBuf) :
        Truthy(has_new_state(proc[o], nb, out))
            <=> (nb \/ (out # <<>> /\ out # proc[o].last_message))

\* C6 witness: a response passed the gate with unchanged buttons, on output
\* that is non-empty and differs from last_message
C6_Witness ==
    \E f \in FrameIds :
        /\ frame[f].pc = "transport"
        /\ ~frame[f].new_buttons
        /\ frame[f].cand # <<>>
        /\ frame[f].cand # proc[frame[f].proc].last_message

\* C7 (as claimed): after a successful push, a push attempt that finds the
\* buttons unchanged and whose candidate output is the one last pushed is
\* skipped: it never reaches the transport
C7_IdenticalPushSkipped ==
    [][\A f \in FrameIds :
          (frame[f].pc # "transport" /\ frame'[f].pc = "transport")
          => ~(/\ proc[frame'[f].proc].is_partial
               /\ ~frame'[f].new_buttons
               /\ frame'[f].buttons = proc[frame'[f].proc].pushed_buttons
               /\ frame'[f].cand = proc[frame'[f].proc].pushed_cand)]_vars

\* the keystrokes the claim describes for the lines of a text, reading it
\* character by character: at each line break the line so far (Enter alone
\* if it is empty) and then an Enter, at the end the last line
KeyOfLine(line) == IF line = <<>> THEN Enter ELSE send(line)
RECURSIVE ScanKeys(_, _, _)
ScanKeys(s, i, line) ==
    IF i > Len(s) THEN <<KeyOfLine(line)>>
    ELSE IF s[i] = "\n" THEN <<KeyOfLine(line), Enter>> \o ScanKeys(s, i + 1, <<>>)
    ELSE ScanKeys(s, i + 1, Append(line, s[i]))
IsLetter(ch) == ch \in {"c", "m"}

\* C8 (as claimed): '^' followed by one letter gives the control code of the
\* letter alone; every other text gives the keystrokes of its lines
C8_KeysAsClaimed ==
    keys.to # 0 =>
        keys.sent = IF Len(keys.text) = 2 /\ keys.text[1] = "^" /\ IsLetter(keys.text[2])
                    THEN <<sendcontrol(keys.text[2])>>
                    ELSE ScanKeys(keys.text, 1, <<>>)

\* C9 (as claimed): a push on a Done session sends nothing to the process
C9_NoKeysToDoneSession ==
    (keys.to # 0 /\ ~keys.running) => keys.sent = <<>>

\* C10 (as claimed): no push asks the transport to display a body that is
\* empty or made of blank lines only: such a body is replaced by no text
C10_NoEmptyBody ==
    \A f \in FrameIds :
        frame[f].pc = "transport" => (frame[f].output = None \/ AnyLine(frame[f].output))

\* C11 (as claimed): response_id is assigned at most once per session, so at
\* most one outward message is created for it under every interleaving of
\* the update loop's response() with the ones callbacks start
C11_OneOutwardMessage ==
    \A o \in Objs : proc[o].response_id <= 1

\* C12: a button callback whose pid is not in the registry is answered with
\* the "not exist anymore" alert, the wrapped handler is not called, and no
\* session, registry, interactive or coroutine state changes
C12_NotFoundChangesNothing ==
    [][\A k \in Pids :
          (all_processes[k] = 0 /\ Callback(k))
          => /\ k \in not_exist_alerts'
             /\ UNCHANGED <<proc, all_processes, interactive_process,
                            last_process, frame, keys>>]_vars

\* C12 witness: the pid of a session the cleaner removed got the alert
C12_Witness ==
    \E o \in Objs :
        /\ Constructed(o)
        /\ all_processes[proc[o].pid] = 0
        /\ proc[o].pid \in not_exist_alerts

\* the gate of a response() that starts now for process o, without a browser
GateOpen(o) ==
    Truthy(has_new_state(proc[o], update_buttons_changed(proc[o]), media_output(proc[o])))

\* C13: once a session is Done its update loop eventually stops; the loop
\* starts its last response() only when the session is Done and only once,
\* that response reaches the transport exactly when has_new_state lets it,
\* and a stopped loop never does anything again
C13_FinalPushThenStop ==
    /\ \A o \in Objs : Done(o) ~> (frame[o].pc = "stopped")
    /\ [][\A o \in Objs :
            /\ (~frame[o].final /\ frame'[o].final)
               => /\ Done(o)
                  /\ frame'[o].pc \in {"transport", "stopped"}
                  /\ (frame'[o].pc = "transport") <=> GateOpen(o)
            /\ frame[o].final
               => /\ frame'[o].final
                  /\ frame'[o].pc \in {"transport", "stopped"}
                  /\ frame[o].pc = "stopped" => frame'[o] = frame[o]]_vars

\* C13 witness: the loop of a Done session has stopped after its last push
\* delivered the buttons of a finished process
C13_Witness ==
    \E o \in Objs :
        /\ Done(o)
        /\ frame[o].pc = "stopped"
        /\ proc[o].pushed_buttons = <<"Info", "HTML">>

\* C14: a session that is the interactive one when it is Done has the
\* interactive status cleared when its update loop shuts down, whether the
\* last push was skipped, delivered or raised: the loop does stop, and at the
\* step that stops it the session's flag is false and, if it was the
\* router's interactive process, the router holds none
C14_ShutdownClearsInteractive ==
    /\ \A o \in Objs : (Done(o) /\ interactive_process = o) ~> (frame[o].pc = "stopped")
    /\ [][\A o \in Objs :
            (frame[o].pc # "stopped" /\ frame'[o].pc = "stopped")
            => /\ ~proc'[o].is_interactive_process
               /\ interactive_process' # o
               /\ interactive_process = o => interactive_process' = 0]_vars

\* C14 witness: the loop of a session has stopped with the interactive
\* status cleared, while the last message delivered still showed the session
\* as interactive (its last push was not delivered)
C14_Witness ==
    \E o \in Objs :
        /\ frame[o].pc = "stopped"
        /\ proc[o].pushed_buttons =
               <<"Info", "Enter", "Exit interactive mode", "Terminate", "HTML">>
        /\ proc[o].buttons = <<"Info", "HTML">>
        /\ interactive_process = 0
        /\ ~proc[o].is_interactive_process

\* C15: a push attempt of the update loop that fails while the session is
\* Running does not end the loop (it goes on to its next iteration) and
\* changes nothing of the session; nothing but the drain loop's own EOF ends
\* the drain loop; and every Done session still gets its final push attempt
C15_PushFailureSwallowed ==
    /\ [][\A o \in Objs :
            /\ (frame[o].pc \in {"render", "shot", "transport"} /\ ~frame[o].final
                /\ frame'[o].pc \notin {"render", "shot", "transport"})
               => frame'[o].pc = "check"
            /\ (frame[o].pc = "transport" /\ TransportFail(o))
               => proc' = proc
            /\ (proc[o].stream = "running" /\ proc'[o].stream # "running")
               => \E x \in EndOutcomes : Stream(o, x)]_vars
    /\ \A o \in Objs : Done(o) ~> frame[o].final

\* C15 witness: a Running session whose first push failed (the buttons were
\* computed, no message exists), whose loop is at its next iteration and
\* whose drain loop has ingested output
C15_Witness ==
    \E o \in Objs :
        /\ proc[o].is_running
        /\ proc[o].stream = "running"
        /\ frame[o].pc = "check"
        /\ proc[o].buttons # <<>>
        /\ proc[o].response_id = 0
        /\ proc[o].buffer # <<>>

\* C16 (as claimed): a session is evicted once the grace period has passed
\* since it became Done, whatever terminate callbacks and EOF events follow:
\* no pass of the cleaner made 61 seconds or more after the session became
\* Done leaves it in the registry
C16_EvictedAfterGrace ==
    JustReaped =>
        \A o \in Objs :
            (Done(o) /\ now - proc[o].became_done >= (PROCESS_OUTPUT_LIFE_TIME + 1) * HZ)
            => all_processes[proc[o].pid] # o

\* the action a button row stands for, and the actions of a list of rows
ActionOf(label) ==
    IF label \in {"Interactive mode", "Exit interactive mode"}
    THEN "Interactive-toggle" ELSE label
ActionsOf(rows) == {ActionOf(rows[i]) : i \in 1..Len(rows)}

\* C17: update_buttons gives a Running session the five actions Info, Enter,
\* Interactive-toggle, Terminate, HTML and a Done session Info and HTML; the
\* rows depend on is_running and is_interactive_process only; it returns True
\* exactly when the rows differ from the stored ones, stores them and touches
\* nothing else, so that a second call right after returns False
C17_UpdateButtons ==
    /\ [](\A o \in Objs :
            LET p == proc[o]
                p1 == update_buttons(p)
            IN  /\ Len(p1.buttons) = Cardinality(ActionsOf(p1.buttons))
                /\ ActionsOf(p1.buttons) =
                       IF p.is_running
                       THEN {"Info", "Enter", "Interactive-toggle", "Terminate", "HTML"}
                       ELSE {"Info", "HTML"}
                /\ update_buttons_changed(p) <=> (p1.buttons # p.buttons)
                /\ p1 = [p EXCEPT !.buttons = p1.buttons]
                /\ ~update_buttons_changed(p1))
    /\ [][\A o \in Objs :
            (/\ proc'[o].is_running = proc[o].is_running
             /\ proc'[o].is_interactive_process = proc[o].is_interactive_process)
            => update_buttons(proc'[o]).buttons = update_buttons(proc[o]).buttons]_vars

\* C17 witness: the rows of a Running interactive session are stored (the
\* call that stored them returned True, one made now returns False)
C17_Witness ==
    \E o \in Objs :
        /\ proc[o].is_running
        /\ proc[o].is_interactive_process
        /\ proc[o].buttons # <<>>
        /\ ~update_buttons_changed(proc[o])

\* a response() for process o is between its update_buttons call and the
\* return of its transport call
InFlight(o) ==
    \E f \in FrameIds : frame[f].proc = o /\ frame[f].pc \in {"render", "shot", "transport"}

\* C18 (as claimed): outside a response, and while the update loop has
\* attempts to come, the rows stored for change detection are the rows of
\* the last push delivered (none before the first), so a push that failed
\* has not used up a change of the buttons
C18_StoredButtonsAreDelivered ==
    \A o \in Objs :
        (~InFlight(o) /\ frame[o].pc # "stopped")
        => proc[o].buttons = proc[o].pushed_buttons

\* s is an older snapshot, with text to show, of a buffer that has grown to t
StrictPrefix(s, t) == AnyLine(s) /\ Len(s) < Len(t) /\ s = SubSeq(t, 1, Len(s))

\* C19 (as claimed): the text a push delivers is never an older snapshot of
\* the buffer than the text delivered before it, and last_message is never
\* replaced by an older snapshot, however the responses interleave
C19_NoRegress ==
    [][\A o \in Objs :
          /\ ~StrictPrefix(proc'[o].pushed_cand, proc[o].pushed_cand)
          /\ ~StrictPrefix(proc'[o].last_message, proc[o].last_message)]_vars

\* C20: a routed text is forwarded to push of the interactive process when
\* there is one, and then no process is created, the registry is unchanged
\* and no update loop is touched; when there is none exactly one process is
\* spawned, entered in the registry under its pid, and one update loop is
\* started for it, all other loops being left alone
C20_RouteInput ==
    [][\A t \in OrdinaryTexts, k \in Pids :
          /\ AllMessagesInteractive(t)
             => /\ interactive_process # 0
                /\ keys' = [to |-> interactive_process, text |-> t, sent |-> push(t),
                            running |-> proc[interactive_process].is_running]
                /\ all_processes' = all_processes
                /\ \A o \in Objs : proc'[o].pid = proc[o].pid /\ frame'[o] = frame[o]
          /\ NewProcess(k, 2)
             => /\ interactive_process = 0
                /\ keys' = keys
                /\ \E o \in Objs :
                     /\ proc[o].pid = 0
                     /\ proc'[o].pid = k
                     /\ proc'[o].is_running
                     /\ all_processes' = [all_processes EXCEPT ![k] = o]
                     /\ frame[o].pc = "idle"
                     /\ frame'[o].pc = "check"
                     /\ frame'[o].proc = o
                     /\ \A q \in Objs \ {o} :
                          proc'[q] = proc[q] /\ frame'[q] = frame[q]]_vars

\* C20 witness: two commands were spawned, registered and given a loop each,
\* and a text was then forwarded to the one made interactive
C20_Witness ==
    /\ \A o \in 1..2 : Constructed(o) /\ all_processes[proc[o].pid] = o
                        /\ frame[o].pc # "idle"
    /\ interactive_process # 0
    /\ keys.to = interactive_process
    /\ keys.text = <<"c", "\n", "c">>

\* C21 (as claimed): a text routed to the interactive session is followed by
\* an immediate response() exactly when 2 seconds or more have passed since
\* the session's last outward update, and the check has a value for every
\* session that can be interactive, one without a delivered push included
C21_UpdateAfterTwoSeconds ==
    [][\A t \in OrdinaryTexts :
          AllMessagesInteractive(t)
          => /\ update_check' \in {"True", "False"}
             /\ proc[interactive_process].last_update_time # Unset
                => (update_check' = "True"
                    <=> now - proc[interactive_process].last_update_time >= 2 * HZ)]_vars

\* C22 (as claimed): once is_running is False, through EOF or terminate(),
\* run_time is done_time - start_time in whole seconds and no later step
\* changes it
C22_RunTimeFrozen ==
    /\ [](\A o \in Objs :
            Done(o) => proc[o].run_time = IntSeconds(proc[o].done_time - proc[o].start_time))
    /\ [][\A o \in Objs : Done(o) => proc'[o].run_time = proc[o].run_time]_vars

\* C23 (as claimed): once the update loop of a session has stopped, the
\* session is never again the router's interactive_process; stated for the
\* sessions whose last delivered message still shows the toggle button
C23_StoppedNeverInteractive ==
    \A o \in Objs :
        /\ frame[o].pc = "stopped"
        /\ "Interactive-toggle" \in ActionsOf(proc[o].pushed_buttons)
        => interactive_process # o

\* C24 (as claimed): the pid a session's buttons carry resolves to that
\* session or to no session, and no step replaces a session that is in
\* all_processes by another one
C24_CallbackResolvesToIssuer ==
    /\ [](\A o \in Objs :
            Constructed(o) => find_process(proc[o].pid) \in {0, o})
    /\ [][\A k \in Pids :
            (all_processes[k] # 0 /\ all_processes'[k] # 0)
            => all_processes'[k] = all_processes[k]]_vars
====
